---------------------------- MODULE Spec2Model ----------------------------
(***************************************************************************)
(* Structural analysis of an agent's connectivity matrix                   *)
(* (structuralAgentAnalysis.py).                                           *)
(*                                                                         *)
(* The agent (cm, sensor_ixs, hidden_ixs, motor_ixs, n_nodes) is owned by  *)
(* the caller.  The caller wires the agent one edge at a time (SetEdge),   *)
(* calls an analysis function and takes its result (Discard); `ret` holds  *)
(* what the last call returned or raised.  A numpy array is a function     *)
(* cm[i][j] over 0..n-1, an index array is a sequence, a networkx DiGraph  *)
(* is a record [n, w, paths] with nodes 1..n.                              *)
(*                                                                         *)
(* Agents have at least one sensor and one motor: np.array of an empty     *)
(* index list is a float array, which cm[S,:] and cm[:,M] in               *)
(* connected_nodes cannot take as an index.  Weights are 0 or 1: the code  *)
(* reads a weight only through > 0 tests of entries and of sums and        *)
(* products of non-negative entries, and the networkx calls are unweighted.*)
(* An exception is the name of its class in a field err or raised.         *)
(***************************************************************************)
EXTENDS Integers, Sequences, FiniteSets, TLC

\* Bounds of the model.
MaxNodes == 3
MaxEdges == 2

VARIABLES n_nodes, cm, sensor_ixs, hidden_ixs, motor_ixs, ret

vars == <<n_nodes, cm, sensor_ixs, hidden_ixs, motor_ixs, ret>>

agent == [cm |-> cm, sensor_ixs |-> sensor_ixs, hidden_ixs |-> hidden_ixs,
          motor_ixs |-> motor_ixs, n_nodes |-> n_nodes]

\* ret when no call is pending; otherwise ret = [op, arg, raised, val]: the
\* function called, its flag, the exception it raised ("none" when it
\* returned) and the value it returned.
Idle == [op |-> "none"]

----------------------------------------------------------------------------
\* Generic helpers (Python / numpy built-ins).

\* F applied to the value of v, v computed once (a local variable).
Bind(v, F(_)) == CHOOSE r \in {F(x) : x \in {v}} : TRUE

\* f as an explicit table of its values
Table(f) == f @@ <<>>

\* A two-dimensional array as an explicit table.
Table2(f) == Table([i \in DOMAIN f |-> Table(f[i])])

RECURSIVE SumRange(_, _, _)
\* f[lo] + ... + f[hi]
SumRange(f, lo, hi) == IF lo > hi THEN 0 ELSE f[lo] + SumRange(f, lo + 1, hi)

MaxOf(S) == Bind(S, LAMBDA T : CHOOSE x \in T : \A y \in T : y <= x)

\* len(cm)
ArrLen(m) == Cardinality(DOMAIN m)

SeqRange(s) == {s[k] : k \in 1..Len(s)}

\* The members of a set of indices as a list in ascending order.
AscSeq(S) ==
  Bind(S, LAMBDA T :
    Table([k \in 1..Cardinality(T) |->
             CHOOSE v \in T : Cardinality({u \in T : u < v}) = k - 1]))

\* np.sort of a list: ascending, every occurrence kept.  The k-th entry is
\* the value v with fewer than k entries below v and at least k entries
\* not above v.
np_sort(s) ==
  Bind(s, LAMBDA q :
    Table([k \in 1..Len(q) |->
             CHOOSE v \in SeqRange(q) :
               /\ Cardinality({x \in 1..Len(q) : q[x] < v}) < k
               /\ Cardinality({x \in 1..Len(q) : q[x] <= v}) >= k]))

\* np.sum(cm[r, :]) and np.sum(cm[:, c])
RowSum(m, r) == SumRange(m[r], 0, ArrLen(m) - 1)
ColSum(m, c) == SumRange([i \in DOMAIN m |-> m[i][c]], 0, ArrLen(m) - 1)

----------------------------------------------------------------------------
\* Arrays and copies.  An array reference is [arr, shared]: `shared` tells
\* whether writes through it land in the caller's array.

\* cm = agent.cm: a second name for the same array
copy_alias(m) == [arr |-> m, shared |-> TRUE]

\* copy.copy(ndarray): a new array with the same entries
copy_copy(m) == [arr |-> m, shared |-> FALSE]

\* for i in range(len(cm)): cm[i,i] = 0
kill_self_loops(c) ==
  [arr |-> Table2([i \in DOMAIN c.arr |->
                     [j \in DOMAIN c.arr |-> IF i = j THEN 0 ELSE c.arr[i][j]]]),
   shared |-> c.shared]

\* The caller's array once the callee has written through reference c.
CallerArray(orig, c) == IF c.shared THEN c.arr ELSE orig

----------------------------------------------------------------------------
\* Node classifier.  Functions that copy the matrix return [val, cm]: the
\* value and the caller's matrix as the call leaves it.

\* np.sum(np.sum(cm[sensor_ixs,:],1)>0)
number_of_connected_sensors(m, s_ixs) ==
  Cardinality({s \in s_ixs : RowSum(m, s) > 0})

\* np.sum(np.sum(cm[:,motor_ixs],0)>0)
number_of_connected_motors(m, m_ixs) ==
  Cardinality({x \in m_ixs : ColSum(m, x) > 0})

\* The private matrix of the two densely-connected functions.
DenseLocal(cm_agent, allow_self_loops) ==
  IF ~allow_self_loops THEN kill_self_loops(copy_copy(cm_agent))
  ELSE copy_copy(cm_agent)

\* (np.sum(cm,0)*np.sum(cm,1))>0 at index i
DenseAt(m, i) == ColSum(m, i) * RowSum(m, i) > 0

number_of_densely_connected_nodes(cm_agent, allow_self_loops) ==
  Bind(DenseLocal(cm_agent, allow_self_loops), LAMBDA c :
    [val |-> Cardinality({i \in DOMAIN c.arr : DenseAt(c.arr, i)}),
     cm  |-> CallerArray(cm_agent, c)])

densely_connected_nodes(cm_agent, allow_self_loops) ==
  Bind(DenseLocal(cm_agent, allow_self_loops), LAMBDA c :
    [val |-> AscSeq({i \in DOMAIN c.arr : DenseAt(c.arr, i)}),
     cm  |-> CallerArray(cm_agent, c)])

connected_nodes(a) ==
  Bind(kill_self_loops(copy_copy(a.cm)), LAMBDA c :
    Bind(densely_connected_nodes(c.arr, FALSE), LAMBDA d :
      LET cS == AscSeq({s \in a.sensor_ixs : RowSum(c.arr, s) > 0})
          cM == AscSeq({x \in a.motor_ixs : ColSum(c.arr, x) > 0})
      IN [val |-> np_sort(cS \o cM \o d.val),
          cm  |-> CallerArray(a.cm, [arr |-> d.cm, shared |-> c.shared])]))

number_of_connected_nodes_by_type(a) ==
  Bind(number_of_connected_sensors(a.cm, a.sensor_ixs), LAMBDA cS :
    Bind(number_of_densely_connected_nodes(a.cm, FALSE), LAMBDA h :
      Bind(number_of_connected_motors(h.cm, a.motor_ixs), LAMBDA cM :
        [val |-> [cN |-> cS + h.val + cM, cS |-> cS, cH |-> h.val, cM |-> cM],
         cm  |-> h.cm])))

----------------------------------------------------------------------------
\* Connection counter.

\* np.sum(cm[np.ix_(a_ixs,b_ixs)]==0): the entries without a connection
count_zero_entries(m, a_ixs, b_ixs) ==
  Cardinality({<<a, b>> \in a_ixs \X b_ixs : m[a][b] = 0})

\* np.sum(cm[np.ix_(a_ixs,b_ixs)]>0), a_ixs and b_ixs without repetitions
number_of_connections(m, a_ixs, b_ixs) ==
  Cardinality({<<a, b>> \in a_ixs \X b_ixs : m[a][b] > 0})

\* ind = set(range(agent.n_nodes)) whatever connected_only says
all_indices(a, connected_only) == [val |-> 0..(a.n_nodes - 1), cm |-> a.cm]

\* The index set the counts are restricted to.
ConnectionIndices(a, connected_only) ==
  IF connected_only
  THEN Bind(connected_nodes(a), LAMBDA cn :
         [val |-> SeqRange(cn.val), cm |-> cn.cm])
  ELSE [val |-> 0..(a.n_nodes - 1), cm |-> a.cm]

number_of_connections_by_type(a, connected_only) ==
  Bind(ConnectionIndices(a, connected_only), LAMBDA ind :
    LET S == ind.val \cap a.sensor_ixs
        M == ind.val \cap a.motor_ixs
        H == ind.val \cap a.hidden_ixs
    IN [val |-> [s_m |-> number_of_connections(ind.cm, S, M),
                 s_h |-> number_of_connections(ind.cm, S, H),
                 h_h |-> number_of_connections(ind.cm, H, H),
                 h_m |-> number_of_connections(ind.cm, H, M)],
        cm  |-> ind.cm])

----------------------------------------------------------------------------
\* Graph builder.  A DiGraph is [n, w, paths]: nodes 1..n, w[a][b] the
\* weight of the edge a -> b (0 when there is none), and paths[s][t] =
\* [d, sigma] the length and the number of the shortest paths from s to t
\* (d = 0 when s = t or t is not reachable from s; sigma = 0 when t is not
\* reachable from s).

RECURSIVE Bfs(_, _, _, _, _)
\* Breadth-first search from the source: `frontier` is the set of nodes at
\* distance k, tab[t] = [d, sigma] for the nodes found so far (sigma = 0:
\* not found yet, the source has sigma = 1).
Bfs(n, w, frontier, k, tab) ==
  Bind({t \in 1..n : tab[t].sigma = 0 /\ \E p \in frontier : w[p][t] > 0},
       LAMBDA next :
    IF next = {} THEN tab
    ELSE Bind(Table([t \in 1..n |->
                IF t \in next
                THEN [d |-> k + 1,
                      sigma |-> SumRange([p \in 1..n |->
                                  IF p \in frontier /\ w[p][t] > 0
                                  THEN tab[p].sigma ELSE 0], 1, n)]
                ELSE tab[t]]),
              LAMBDA found : Bind(k + 1, LAMBDA k1 : Bfs(n, w, next, k1, found))))

ShortestPaths(n, w) ==
  Table([s \in 1..n |->
    Bind(Table([t \in 1..n |-> [d |-> 0, sigma |-> IF t = s THEN 1 ELSE 0]]),
         LAMBDA start : Bfs(n, w, {s}, 0, start))])

DiGraph(n, w) ==
  Bind(n, LAMBDA size : Bind(Table2(w), LAMBDA W :
    [n |-> size, w |-> W, paths |-> ShortestPaths(size, W)]))

GNodes(G) == 1..G.n
GEdges(G) == {p \in GNodes(G) \X GNodes(G) : G.w[p[1]][p[2]] > 0}

\* nx.from_numpy_matrix(agent.cm[np.ix_(ind_con, ind_con)], nx.DiGraph()):
\* one node per position of ind_con
GraphFromIndices(m, ind_con) ==
  DiGraph(Len(ind_con),
          [x \in 1..Len(ind_con) |->
             [y \in 1..Len(ind_con) |-> m[ind_con[x]][ind_con[y]]]])

\* utils.get_graph(agent): the graph over all n_nodes declared nodes
get_graph(a) ==
  DiGraph(a.n_nodes,
          [x \in 1..a.n_nodes |-> [y \in 1..a.n_nodes |-> a.cm[x - 1][y - 1]]])

\* np.array(nx.adjacency_matrix(G).todense()): indices 0..n-1
AdjacencyMatrix(G) ==
  Table2([i \in 0..(G.n - 1) |-> [j \in 0..(G.n - 1) |-> G.w[i + 1][j + 1]]])

----------------------------------------------------------------------------
\* Topology analyzer (networkx algorithms, by their definitions).

\* For each node, the nodes it reaches (no return path required).
forward_reachable_sets(G) ==
  {{t \in GNodes(G) : s = t \/ G.paths[s][t].d > 0} : s \in GNodes(G)}

\* nx.strongly_connected_components(G)
strongly_connected_components(G) ==
  LET reaches(s, t) == s = t \/ G.paths[s][t].d > 0
  IN {{t \in GNodes(G) : reaches(s, t) /\ reaches(t, s)} : s \in GNodes(G)}

RECURSIVE WeakClosure(_, _)
\* The nodes joined to a node of C by edges taken in either direction.
WeakClosure(G, C) ==
  Bind(C \cup {t \in GNodes(G) : \E s \in C : G.w[s][t] > 0 \/ G.w[t][s] > 0},
       LAMBDA next : IF next = C THEN C ELSE WeakClosure(G, next))

\* nx.weakly_connected_components(G): components of the undirected version
weakly_connected_components(G) ==
  {WeakClosure(G, {s}) : s \in GNodes(G)}

\* max(components, key=len), then len(); max() of no components raises
LargestSize(components) ==
  Bind(components, LAMBDA cs :
    IF cs = {} THEN [err |-> "ValueError", val |-> 0]
    ELSE [err |-> "none", val |-> MaxOf({Cardinality(c) : c \in cs})])

len_LWCC(G) == LargestSize(weakly_connected_components(G))

len_LSCC(G) == LargestSize(strongly_connected_components(G))

\* The edges with both ends in one strongly connected component.
EdgesInsideSCC(G) ==
  Bind(strongly_connected_components(G), LAMBDA scc :
    {p \in GEdges(G) : \E c \in scc : p[1] \in c /\ p[2] \in c})

\* nx.flow_hierarchy(G): 1.0 - (edges inside strongly connected components)
\* / float(number of edges), the fraction num/den; float division by zero
\* raises.
flow_hierarchy(G) ==
  Bind(Cardinality(GEdges(G)), LAMBDA total :
    IF total = 0 THEN [err |-> "ZeroDivisionError", num |-> 0, den |-> 0]
    ELSE [err |-> "none", num |-> total - Cardinality(EdgesInsideSCC(G)),
          den |-> total])

RECURSIVE Gcd(_, _)
Gcd(x, y) == IF y = 0 THEN x ELSE Bind(x % y, LAMBDA r : Gcd(y, r))

RECURSIVE LcmOf(_)
LcmOf(S) ==
  Bind(S, LAMBDA T :
    IF T = {} THEN 1
    ELSE Bind(CHOOSE y \in T : TRUE, LAMBDA x :
           Bind(LcmOf(T \ {x}), LAMBDA r : (x * r) \div Gcd(x, r))))

\* A float quotient num/den as numpy computes it when den is a numpy
\* integer: 0/0 is nan and x/0 is inf (with a warning), nothing is raised.
np_divide(num, den) ==
  [kind |-> IF den # 0 THEN "finite" ELSE IF num = 0 THEN "nan" ELSE "inf",
   num |-> num, den |-> den]

\* sum(betweenness_centrality(G).values()) as the fraction num/den.
\* Betweenness of v: sum over s, t (s # v # t, s # t, t reachable from s) of
\* sigma(s,t|v)/sigma(s,t), scaled by 1/((n-1)(n-2)) when n > 2.
betweenness_sum(G) ==
  LET N == GNodes(G)
      D == G.paths
      passes(v, s, t) ==
        /\ D[s][t].d > 0 /\ v # s /\ v # t
        /\ D[s][v].d > 0 /\ D[v][t].d > 0
        /\ D[s][v].d + D[v][t].d = D[s][t].d
  IN Bind(LcmOf({D[p[1]][p[2]].sigma : p \in {q \in N \X N : D[q[1]][q[2]].d > 0}}),
          LAMBDA L :
       LET dep(v, s, t) ==
             IF passes(v, s, t)
             THEN D[s][v].sigma * D[v][t].sigma * (L \div D[s][t].sigma)
             ELSE 0
           term(v) ==
             SumRange([s \in N |-> SumRange([t \in N |-> dep(v, s, t)], 1, G.n)],
                      1, G.n)
       IN [num |-> SumRange([v \in N |-> term(v)], 1, G.n),
           den |-> L * (IF G.n > 2 THEN (G.n - 1) * (G.n - 2) ELSE 1)])

\* num_hidden of average_betweenness_centrality; the name `agent` is not
\* bound in that function nor in the module, so its lookup raises.
BetweennessDivisor(G, connected_only) ==
  IF connected_only
  THEN [err |-> "none",
        val |-> number_of_densely_connected_nodes(AdjacencyMatrix(G), FALSE).val]
  ELSE [err |-> "NameError", val |-> 0]

average_betweenness_centrality(G, connected_only) ==
  Bind(betweenness_sum(G), LAMBDA HBC :
    Bind(BetweennessDivisor(G, connected_only), LAMBDA nh :
      IF nh.err # "none" THEN [err |-> nh.err, val |-> np_divide(0, 1)]
      ELSE [err |-> "none", val |-> np_divide(HBC.num, HBC.den * nh.val)]))

\* degree_centrality: (in-degree + out-degree)/(n-1) per node, 1 per node
\* when n <= 1; averaged over the nodes of G.
average_degree_centrality(G) ==
  LET deg == [v \in GNodes(G) |->
                Cardinality({p \in GEdges(G) : p[1] = v})
                + Cardinality({p \in GEdges(G) : p[2] = v})]
  IN IF G.n = 0 THEN [err |-> "ZeroDivisionError", num |-> 0, den |-> 0]
     ELSE IF G.n = 1 THEN [err |-> "none", num |-> 1, den |-> 1]
     ELSE [err |-> "none", num |-> SumRange(deg, 1, G.n), den |-> G.n * (G.n - 1)]

----------------------------------------------------------------------------
\* Report assembler.

\* The graph fullStructuralAnalysis analyses, with the caller's matrix as
\* building it leaves it.
AnalysisGraph(a, connected_only) ==
  IF connected_only
  THEN Bind(connected_nodes(a), LAMBDA cn :
         [G |-> GraphFromIndices(cn.cm, cn.val), cm |-> cn.cm])
  ELSE [G |-> get_graph(a), cm |-> a.cm]

\* The entries of the `components` dictionary, in the order they are
\* evaluated.
Components(G, connected_only) ==
  <<len_LSCC(G), len_LWCC(G), flow_hierarchy(G),
    average_betweenness_centrality(G, connected_only),
    average_degree_centrality(G)>>

\* The first exception raised while the entries are evaluated.
FirstRaised(comp) ==
  IF \A k \in 1..Len(comp) : comp[k].err = "none" THEN "none"
  ELSE comp[CHOOSE k \in 1..Len(comp) :
              comp[k].err # "none" /\ \A j \in 1..(k - 1) : comp[j].err = "none"].err

NoRecord == [none |-> TRUE]

fullStructuralAnalysis(a, connected_only) ==
  Bind(number_of_connected_nodes_by_type(a), LAMBDA nt :
    Bind(number_of_connections_by_type([a EXCEPT !.cm = nt.cm], connected_only),
         LAMBDA ct :
      Bind(AnalysisGraph([a EXCEPT !.cm = ct.cm], connected_only), LAMBDA ag :
        Bind(Components(ag.G, connected_only), LAMBDA comp :
          [raised |-> FirstRaised(comp),
           val |-> IF FirstRaised(comp) # "none" THEN NoRecord
                   ELSE [cN |-> nt.val.cN, cS |-> nt.val.cS, cH |-> nt.val.cH,
                         cM |-> nt.val.cM,
                         s_m |-> ct.val.s_m, s_h |-> ct.val.s_h,
                         h_h |-> ct.val.h_h, h_m |-> ct.val.h_m,
                         len_LSCC |-> comp[1].val, len_LWCC |-> comp[2].val,
                         flow_hierarchy |-> [num |-> comp[3].num, den |-> comp[3].den],
                         av_betweenness_centrality |-> comp[4].val,
                         av_degree_centrality |->
                           [num |-> comp[5].num, den |-> comp[5].den]],
           cm |-> ag.cm]))))

----------------------------------------------------------------------------
\* The caller and its calls.

NodesOf(n) == 0..(n - 1)

NumEdges(m) == Cardinality({p \in (DOMAIN m) \X (DOMAIN m) : m[p[1]][p[2]] > 0})

\* A newly built agent: n nodes, each in one group, no edge yet.
NewAgent(n, kind) ==
  /\ n_nodes = n
  /\ sensor_ixs = {i \in NodesOf(n) : kind[i] = "S"}
  /\ hidden_ixs = {i \in NodesOf(n) : kind[i] = "H"}
  /\ motor_ixs = {i \in NodesOf(n) : kind[i] = "M"}
  /\ sensor_ixs # {} /\ motor_ixs # {}
  /\ cm = [i \in NodesOf(n) |-> [j \in NodesOf(n) |-> 0]]
  /\ ret = Idle

Init ==
  \E n \in 1..MaxNodes : \E kind \in [NodesOf(n) -> {"S", "H", "M"}] :
    NewAgent(n, kind)

\* The caller sets the weight of the edge i -> j.
SetEdge(i, j, w) ==
  /\ ret = Idle
  /\ cm[i][j] # w
  /\ (cm[i][j] = 0) => NumEdges(cm) < MaxEdges
  /\ cm' = [cm EXCEPT ![i][j] = w]
  /\ ret' = Idle
  /\ UNCHANGED <<n_nodes, sensor_ixs, hidden_ixs, motor_ixs>>

\* A call returns r = [val, cm] (and `raised` when it can raise).
Returns(op, arg, raised, r) ==
  /\ ret' = [op |-> op, arg |-> arg, raised |-> raised, val |-> r.val]
  /\ cm' = r.cm
  /\ UNCHANGED <<n_nodes, sensor_ixs, hidden_ixs, motor_ixs>>

Call_number_of_densely_connected_nodes(allow_self_loops) ==
  /\ ret = Idle
  /\ \E r \in {number_of_densely_connected_nodes(agent.cm, allow_self_loops)} :
       Returns("number_of_densely_connected_nodes", allow_self_loops, "none", r)

Call_densely_connected_nodes(allow_self_loops) ==
  /\ ret = Idle
  /\ \E r \in {densely_connected_nodes(agent.cm, allow_self_loops)} :
       Returns("densely_connected_nodes", allow_self_loops, "none", r)

Call_connected_nodes ==
  /\ ret = Idle
  /\ \E r \in {connected_nodes(agent)} :
       Returns("connected_nodes", FALSE, "none", r)

Call_number_of_connected_nodes_by_type ==
  /\ ret = Idle
  /\ \E r \in {number_of_connected_nodes_by_type(agent)} :
       Returns("number_of_connected_nodes_by_type", FALSE, "none", r)

Call_number_of_connections_by_type(connected_only) ==
  /\ ret = Idle
  /\ \E r \in {number_of_connections_by_type(agent, connected_only)} :
       Returns("number_of_connections_by_type", connected_only, "none", r)

Call_fullStructuralAnalysis(connected_only) ==
  /\ ret = Idle
  /\ \E r \in {fullStructuralAnalysis(agent, connected_only)} :
       Returns("fullStructuralAnalysis", connected_only, r.raised, r)

\* The caller takes the result of its last call.
Discard ==
  /\ ret # Idle
  /\ ret' = Idle
  /\ UNCHANGED <<n_nodes, cm, sensor_ixs, hidden_ixs, motor_ixs>>

Next ==
  \/ \E i \in NodesOf(n_nodes), j \in NodesOf(n_nodes), w \in {0, 1} :
       SetEdge(i, j, w)
  \/ \E b \in BOOLEAN : Call_number_of_densely_connected_nodes(b)
  \/ \E b \in BOOLEAN : Call_densely_connected_nodes(b)
  \/ Call_connected_nodes
  \/ Call_number_of_connected_nodes_by_type
  \/ \E b \in BOOLEAN : Call_number_of_connections_by_type(b)
  \/ \E b \in BOOLEAN : Call_fullStructuralAnalysis(b)
  \/ Discard

Spec == Init /\ [][Next]_vars

\* The caller that only wires the agent and counts its connections.
NextConnections ==
  \/ \E i \in NodesOf(n_nodes), j \in NodesOf(n_nodes), w \in {0, 1} :
       SetEdge(i, j, w)
  \/ \E b \in BOOLEAN : Call_number_of_connections_by_type(b)
  \/ Discard

SpecConnections == Init /\ [][NextConnections]_vars

----------------------------------------------------------------------------
\* The four-node scenario: sensor 0, hidden 1 and 2, motor 3, unit-weight
\* edges 0->1, 1->2, 2->1, 2->3.

ScenarioEdges == {<<0, 1>>, <<1, 2>>, <<2, 1>>, <<2, 3>>}

ScenarioAgent ==
  /\ n_nodes = Cardinality(ScenarioEdges)
  /\ sensor_ixs = {0}
  /\ hidden_ixs = {1, 2}
  /\ motor_ixs = {3}
  /\ cm = [i \in NodesOf(n_nodes) |-> [j \in NodesOf(n_nodes) |->
             IF <<i, j>> \in ScenarioEdges THEN 1 ELSE 0]]

ScenarioInit == ScenarioAgent /\ ret = Idle

SpecScenario == ScenarioInit /\ [][Next]_vars

----------------------------------------------------------------------------
\* Properties.

\* C1: the cN field returned by number_of_connected_nodes_by_type(agent)
\* equals the length of the sequence returned by connected_nodes(agent),
\* self-loops allowed on any node.
C1_cN_is_len_connected_nodes ==
  ret.op = "number_of_connected_nodes_by_type" =>
    ret.val.cN = Len(connected_nodes(agent).val)

\* C2: connected_nodes(agent) is the union of the connected sensors, the
\* connected motors and the densely-connected hidden nodes, in ascending
\* order, no index occurring more than once.
C2_connected_nodes_sorted_distinct ==
  ret.op = "connected_nodes" =>
    LET out(v) == \E j \in NodesOf(n_nodes) : j # v /\ cm[v][j] > 0
        in(v) == \E i \in NodesOf(n_nodes) : i # v /\ cm[i][v] > 0
    IN /\ \A k \in 1..(Len(ret.val) - 1) : ret.val[k] < ret.val[k + 1]
       /\ SeqRange(ret.val) = {s \in sensor_ixs : out(s)}
                                \cup {m \in motor_ixs : in(m)}
                                \cup {h \in hidden_ixs : out(h) /\ in(h)}

\* C3: densely_connected_nodes, number_of_densely_connected_nodes and the
\* reported cH select exactly the hidden nodes with a positive outgoing and
\* a positive incoming edge, self-loops counted only when allow_self_loops;
\* sensors and motors are never counted.
C3_dense_is_hidden_with_in_and_out ==
  LET out(v, allow) == \E j \in NodesOf(n_nodes) : (allow \/ j # v) /\ cm[v][j] > 0
      in(v, allow) == \E i \in NodesOf(n_nodes) : (allow \/ i # v) /\ cm[i][v] > 0
      DenseHidden(allow) == {h \in hidden_ixs : out(h, allow) /\ in(h, allow)}
  IN /\ ret.op = "densely_connected_nodes" =>
          SeqRange(ret.val) = DenseHidden(ret.arg)
     /\ ret.op = "number_of_densely_connected_nodes" =>
          ret.val = Cardinality(DenseHidden(ret.arg))
     /\ ret.op = "number_of_connected_nodes_by_type" =>
          ret.val.cH = Cardinality(DenseHidden(FALSE))

C5_scenario_report ==
  (ScenarioAgent /\ ret.op = "fullStructuralAnalysis" /\ ret.arg) =>
    /\ ret.raised = "none"
    /\ ret.val.cS = 1 /\ ret.val.cH = 2 /\ ret.val.cM = 1 /\ ret.val.cN = 4
    /\ ret.val.s_h = 1 /\ ret.val.h_h = 2 /\ ret.val.h_m = 1 /\ ret.val.s_m = 0
    /\ ret.val.len_LSCC = 2 /\ ret.val.len_LWCC = 4

C5_witness ==
  /\ ScenarioAgent
  /\ ret.op = "fullStructuralAnalysis" /\ ret.arg
  /\ ret.raised = "none"

\* C6: a call of any of the analysis functions leaves the caller's
\* connectivity matrix (diagonal included) and the three index sets as they
\* were.
C6_caller_agent_unchanged ==
  [][(ret = Idle /\ ret' # Idle) =>
       /\ cm' = cm
       /\ sensor_ixs' = sensor_ixs
       /\ hidden_ixs' = hidden_ixs
       /\ motor_ixs' = motor_ixs]_vars

\* A function that strips self-loops has returned and the caller's matrix
\* has a self-loop.
C6_witness ==
  /\ ret.op \in {"connected_nodes", "densely_connected_nodes",
                 "fullStructuralAnalysis"}
  /\ \E i \in NodesOf(n_nodes) : cm[i][i] > 0

\* C7: average_betweenness_centrality divides the sum of the betweenness
\* centralities of G by the agent's number of densely-connected hidden nodes
\* when connected_only and by len(agent.hidden_ixs) otherwise, and completes
\* in both branches whenever that divisor is at least one.
C7_betweenness_divisor ==
  (ret.op = "fullStructuralAnalysis"
     /\ ret.raised \notin {"ValueError", "ZeroDivisionError"}) =>
    LET out(v) == \E j \in NodesOf(n_nodes) : j # v /\ cm[v][j] > 0
        in(v) == \E i \in NodesOf(n_nodes) : i # v /\ cm[i][v] > 0
        divisor == IF ret.arg
                   THEN Cardinality({h \in hidden_ixs : out(h) /\ in(h)})
                   ELSE Cardinality(hidden_ixs)
    IN divisor >= 1 =>
         /\ ret.raised = "none"
         /\ \E HBC \in {betweenness_sum(AnalysisGraph(agent, ret.arg).G)} :
              /\ ret.val.av_betweenness_centrality.kind = "finite"
              /\ ret.val.av_betweenness_centrality.num * (HBC.den * divisor)
                   = HBC.num * ret.val.av_betweenness_centrality.den

\* C8: when the analysed graph has no edge, flow_hierarchy is an error (or
\* NaN), and when the number of qualifying hidden nodes (the betweenness
\* divisor) is 0, av_betweenness_centrality is an error or NaN: no record is
\* returned in which the field is an ordinary finite number.
C8_zero_division_surfaced ==
  ret.op = "fullStructuralAnalysis" =>
    LET out(v) == \E j \in NodesOf(n_nodes) : j # v /\ cm[v][j] > 0
        in(v) == \E i \in NodesOf(n_nodes) : i # v /\ cm[i][v] > 0
        qualifying == IF ret.arg THEN {h \in hidden_ixs : out(h) /\ in(h)}
                      ELSE hidden_ixs
    IN /\ GEdges(AnalysisGraph(agent, ret.arg).G) = {} => ret.raised # "none"
       /\ qualifying = {} =>
            \/ ret.raised # "none"
            \/ ret.val.av_betweenness_centrality.kind = "nan"

\* C9: changing a zero entry of the matrix to a positive weight decreases
\* neither number_of_connections(M, A, B) for any index sets A, B nor any of
\* the four counts of number_of_connections_by_type, for either value of
\* connected_only.
C9_adding_edge_monotone ==
  [][(\E i, j \in NodesOf(n_nodes) :
        cm[i][j] = 0 /\ cm' = [cm EXCEPT ![i][j] = 1]) =>
       /\ \A A, B \in SUBSET NodesOf(n_nodes) :
            number_of_connections(cm', A, B) >= number_of_connections(cm, A, B)
       /\ \A b \in BOOLEAN :
            \E before \in {number_of_connections_by_type(agent, b).val},
               after \in {number_of_connections_by_type(
                            [agent EXCEPT !.cm = cm'], b).val} :
              \A f \in DOMAIN before : after[f] >= before[f]]_vars

\* An edge whose addition raised the connected_only count of another type
\* pair: it made a node connected.
C9_witness ==
  /\ ret = Idle
  /\ \E i, j \in NodesOf(n_nodes) :
       /\ cm[i][j] > 0
       /\ <<i, j>> \notin sensor_ixs \X hidden_ixs
       /\ number_of_connections_by_type(agent, TRUE).val.s_h
            > number_of_connections_by_type(
                [agent EXCEPT !.cm[i][j] = 0], TRUE).val.s_h

\* C10: with connected_only=True the analysed graph has exactly one node per
\* distinct connected node of the agent, and for an agent with at least one
\* connected node the reported sizes satisfy
\* 1 <= len_LSCC <= len_LWCC <= number of distinct connected nodes <= N.
C10_component_sizes_bounded ==
  (ret.op = "fullStructuralAnalysis" /\ ret.arg) =>
    \E distinct \in {Cardinality(SeqRange(connected_nodes(agent).val))} :
      /\ AnalysisGraph(agent, TRUE).G.n = distinct
      /\ (distinct >= 1 /\ ret.raised = "none") =>
           /\ 1 <= ret.val.len_LSCC
           /\ ret.val.len_LSCC <= ret.val.len_LWCC
           /\ ret.val.len_LWCC <= distinct
           /\ distinct <= n_nodes

=============================================================================
